---- MODULE Spec2Model ----
(***************************************************************************)
(* Model of crates/tabby-scheduler/src/doc/mod.rs: DocBuilder turns a      *)
(* SourceDocument into a lazy stream of (tokens, {chunk_text}) records.    *)
(*                                                                         *)
(* Text is run-length encoded: a string is a sequence of runs <<kind,len>> *)
(* with kind "t" (non-whitespace characters) or "w" (whitespace), adjacent *)
(* runs having different kinds.  A chunk is a &str slice of the content,   *)
(* i.e. a pair of character offsets.                                       *)
(***************************************************************************)
EXTENDS Integers, Sequences, FiniteSets, TLC

\* ---------------------------------------------------------------- bounds
MaxRuns == 3
MaxDonePulls == 2

\* ------------------------------------------------------ program constants
\* variant: a capacity twice as large
CHUNK_SIZE_Doubled == 2 * 2048

CHUNK_SIZE == 2048

\* ------------------------------------------------------------ input sets
Lens == {1, 2047, 5000}
Kinds == {"t", "w"}
Runs == Kinds \X Lens

Alternating(b) == \A k \in 1..(Len(b) - 1) : b[k][1] # b[k + 1][1]

Bodies == UNION {{b \in [1..n -> Runs] : Alternating(b)} : n \in 0..MaxRuns}

Vectors == {<<0, 0>>, <<1, -1>>}

\* strings other than bodies are sequences of characters
Ids ==
    {<<>>, <<"a">>, <<"a", "b">>, <<"a", "b", "c">>, <<"a", "c", "b">>, <<":">>,
     <<"w", "e", "b", ":">>, <<"w", "e", "b", ":", "a", "b", "c">>}
Titles == {<<>>, <<"T">>}
Links == {<<>>, <<"L">>}

\* ---------------------------------------------------------- text helpers
RECURSIVE Size(_)
Size(b) == IF b = <<>> THEN 0 ELSE b[1][2] + Size(Tail(b))

\* offset of the first character of run k
RunStart(b, k) == Size(SubSeq(b, 1, k - 1))

RunEnd(b, k) == RunStart(b, k) + b[k][2]

\* index of the run holding the character at offset p, 0 <= p < Size(b)
RunAt(b, p) == CHOOSE k \in 1..Len(b) : RunStart(b, k) <= p /\ p < RunEnd(b, k)

IsBlank(b) == \A k \in 1..Len(b) : b[k][1] = "w"

\* number of non-whitespace characters of b
RECURSIVE TextChars(_)
TextChars(b) ==
    IF b = <<>> THEN 0
    ELSE (IF b[1][1] = "t" THEN b[1][2] ELSE 0) + TextChars(Tail(b))

Max(x, y) == IF x >= y THEN x ELSE y
Min(x, y) == IF x <= y THEN x ELSE y

\* the slice content[s..e) as a string
Slice(b, s, e) ==
    LET ks == {k \in 1..Len(b) : RunStart(b, k) < e /\ RunEnd(b, k) > s}
        lo == CHOOSE k \in ks : \A j \in ks : k <= j
    IN  [i \in 1..Cardinality(ks) |->
            <<b[lo + i - 1][1],
              Min(RunEnd(b, lo + i - 1), e) - Max(RunStart(b, lo + i - 1), s)>>]

\* str::trim
RECURSIVE TrimStart(_)
TrimStart(b) == IF b # <<>> /\ b[1][1] = "w" THEN TrimStart(Tail(b)) ELSE b

RECURSIVE TrimEnd(_)
TrimEnd(b) ==
    IF b # <<>> /\ b[Len(b)][1] = "w" THEN TrimEnd(SubSeq(b, 1, Len(b) - 1)) ELSE b

Trim(b) == TrimEnd(TrimStart(b))

\* ------------------------------------------------------------- Chunker
\* first offset >= p that is not whitespace (Size(b) when there is none)
RECURSIVE SkipWs(_, _)
SkipWs(b, p) ==
    IF p >= Size(b) THEN Size(b)
    ELSE IF b[RunAt(b, p)][1] = "t" THEN p
    ELSE SkipWs(b, RunEnd(b, RunAt(b, p)))

\* end of the word holding offset p
WordEnd(b, p) == RunEnd(b, RunAt(b, p))

\* widest end e >= e0 on a word boundary such that the trimmed slice [s, e)
\* still fits the capacity
RECURSIVE Extend(_, _, _, _)
Extend(b, s, e, cap) ==
    LET n == SkipWs(b, e)
    IN  IF n < Size(b) /\ WordEnd(b, n) - s <= cap
        THEN Extend(b, s, WordEnd(b, n), cap)
        ELSE e

\* the chunk that starts at or after offset p: <<start, end>>, or <<>>
NextChunk(b, p, cap) ==
    LET s == SkipWs(b, p)
    IN  IF s >= Size(b) THEN <<>>
        ELSE IF WordEnd(b, s) - s > cap THEN <<s, s + cap>>
        ELSE <<s, Extend(b, s, WordEnd(b, s), cap)>>

RECURSIVE ChunksFrom(_, _, _)
ChunksFrom(b, p, cap) ==
    LET c == NextChunk(b, p, cap)
    IN  IF c = <<>> THEN <<>> ELSE <<c>> \o ChunksFrom(b, c[2], cap)

\* TextSplitter::new(CHUNK_SIZE).chunks(&content)
chunks(b) == ChunksFrom(b, 0, CHUNK_SIZE)

\* the chunk offsets and the chunk strings of every body, tabulated
ChunksOf == [b \in Bodies |-> chunks(b)] @@ <<>>

TextsOf ==
    [b \in Bodies |->
        [i \in 1..Len(ChunksOf[b]) |->
            Slice(b, ChunksOf[b][i][1], ChunksOf[b][i][2])] @@ <<>>] @@ <<>>

\* ------------------------------------------------------------- Binarizer
\* variant: zero falls on the negative side of the threshold
binarize_embedding_Strict(v) ==
    [i \in 1..Len(v) |-> <<IF v[i] > 0 THEN "ge0" ELSE "lt0", i - 1>>]

\* one token per component, in component order: the side of zero the
\* component lies on, tagged with the component's position
binarize_embedding(v) ==
    [i \in 1..Len(v) |-> <<IF v[i] >= 0 THEN "ge0" ELSE "lt0", i - 1>>]

\* ----------------------------------------------------------------- state
VARIABLES
    document,   \* the SourceDocument handed to build_chunk_attributes
    phase,      \* "new" | "future" | "stream"
    content,    \* document.body.clone() owned by the future / stream
    gen,        \* position of the stream! generator
    chunk,      \* chunk_text, the slice the for loop is at (<<>> before it)
    cur,        \* number of chunks taken from the iterator splitter.chunks(&content)
    embedFut,   \* state of the future embedding.embed(chunk_text)
    calls,      \* chunk numbers embed was invoked for, in call order
    failed,     \* chunk numbers whose embed returned Err
    out,        \* records the consumer has received
    pulling,    \* the consumer is inside stream.next().await
    pulls,      \* number of next() calls made by the consumer
    dropped,    \* the consumer dropped the future / stream
    returned,   \* embed results handed to the generator, with the chunk number
                \* of the call each one answers
    result,     \* last value returned by format_id / build_id / build_attributes
    peer        \* the pipelines of other documents, parked while this one is polled

vars == <<document, phase, content, gen, chunk, cur, embedFut, calls,
          failed, out, pulling, pulls, dropped, returned, result, peer>>

SourceDocument == [id : Ids, title : Titles, link : Links, body : Bodies]

\* the documents the chunk pipeline is explored with
PipelineDocuments ==
    [id : {<<"a", "b", "c">>}, title : {<<"T">>}, link : {<<"L">>}, body : Bodies]

\* the documents the attribute builders are explored with, next to a
\* pipeline over a body of none, one or two chunks
DocBodies == {<<>>, <<<<"t", 1>>>>, <<<<"t", 2047>>, <<"w", 1>>, <<"t", 1>>>>}
DocDocuments == [id : Ids, title : Titles, link : Links, body : DocBodies]

NoResult == [op |-> "none", arg |-> <<>>, val |-> <<>>]

\* states of the future returned by embedding.embed(chunk_text)
FutNone == [st |-> "none", val |-> <<>>]
FutPending == [st |-> "pending", val |-> <<>>]
FutErr == [st |-> "err", val |-> <<>>]
FutOk(v) == [st |-> "ok", val |-> v]

\* nothing has been called yet
Fresh ==
    /\ phase = "new"
    /\ content = <<>>
    /\ gen = "start"
    /\ chunk = <<>>
    /\ cur = 0
    /\ embedFut = FutNone
    /\ calls = <<>>
    /\ failed = {}
    /\ out = <<>>
    /\ pulling = FALSE
    /\ pulls = 0
    /\ dropped = FALSE
    /\ returned = <<>>
    /\ result = NoResult

\* a pipeline as it is kept while another one runs: everything the future
\* and the stream of one build_chunk_attributes call own
Pipeline(d, ph, co, g, ch, cu, ef, ca, fa, o, pg, ps, dr, re) ==
    [document |-> d, phase |-> ph, content |-> co, gen |-> g, chunk |-> ch,
     cur |-> cu, embedFut |-> ef, calls |-> ca, failed |-> fa, out |-> o,
     pulling |-> pg, pulls |-> ps, dropped |-> dr, returned |-> re]

FreshPipeline(d) ==
    Pipeline(d, "new", <<>>, "start", <<>>, 0, FutNone, <<>>, {}, <<>>,
             FALSE, 0, FALSE, <<>>)

\* two documents indexed at the same time: two chunks and three chunks
PairDocuments ==
    {[id |-> <<"a">>, title |-> <<"T">>, link |-> <<"L">>,
      body |-> <<<<"t", 2047>>, <<"w", 1>>, <<"t", 1>>>>],
     [id |-> <<"a", "b">>, title |-> <<"T">>, link |-> <<"L">>,
      body |-> <<<<"t", 5000>>>>]}

Init == document \in PipelineDocuments /\ Fresh /\ peer = <<>>

DocInit == document \in DocDocuments /\ Fresh /\ peer = <<>>

PairInit ==
    /\ document \in PairDocuments
    /\ Fresh
    /\ \E d \in PairDocuments \ {document} : peer = <<FreshPipeline(d)>>

\* variant: the tokens also depend on the chunk the vector belongs to
RecordSalted(v, text) ==
    [tokens |-> Append(binarize_embedding(v), <<"len", Size(text)>>),
     attributes |-> [chunk_text |-> text]]

\* json!({ CHUNK_TEXT: chunk_text }) paired with the binarized tokens
Record(v, text) ==
    [tokens |-> binarize_embedding(v), attributes |-> [chunk_text |-> text]]

\* ------------------------------------------------------------ generator
\* variant: the body itself is embedded when the splitter yields no chunk
StartChunkWholeBody ==
    LET it == IF ChunksOf[content] = <<>> /\ content # <<>>
              THEN <<<<0, Size(content)>>>>
              ELSE ChunksOf[content]
    IN  IF cur < Len(it)
        THEN /\ chunk' = it[cur + 1]
             /\ cur' = cur + 1
             /\ calls' = Append(calls, cur + 1)
             /\ embedFut' = FutPending
             /\ gen' = "embedding"
        ELSE /\ gen' = "done"
             /\ embedFut' = FutNone
             /\ UNCHANGED <<chunk, cur, calls>>

\* variant: the embed call of the following chunk is issued together with
\* the one of the next chunk
StartChunkPrefetch ==
    IF cur < Len(ChunksOf[content])
    THEN /\ chunk' = ChunksOf[content][cur + 1]
         /\ cur' = cur + 1
         /\ calls' = IF cur + 1 < Len(ChunksOf[content])
                     THEN calls \o <<cur + 1, cur + 2>>
                     ELSE Append(calls, cur + 1)
         /\ embedFut' = FutPending
         /\ gen' = "embedding"
    ELSE /\ gen' = "done"
         /\ embedFut' = FutNone
         /\ UNCHANGED <<chunk, cur, calls>>

\* one turn of `for chunk_text in splitter.chunks(&content)`: take the next
\* chunk from the iterator and call embed on it, or leave the loop and end
\* the stream
StartChunk ==
    IF cur < Len(ChunksOf[content])
    THEN /\ chunk' = ChunksOf[content][cur + 1]
         /\ cur' = cur + 1
         /\ calls' = Append(calls, cur + 1)
         /\ embedFut' = FutPending
         /\ gen' = "embedding"
    ELSE /\ gen' = "done"
         /\ embedFut' = FutNone
         /\ UNCHANGED <<chunk, cur, calls>>

\* variant: `break` instead of `continue`, the first failure ends the stream
OnEmbedErrBreak ==
    /\ failed' = failed \cup {cur}
    /\ gen' = "done"
    /\ embedFut' = FutNone
    /\ pulling' = FALSE
    /\ UNCHANGED <<chunk, cur, calls, out>>

\* variant: a failed chunk is embedded again
OnEmbedErrRetry ==
    /\ failed' = failed \cup {cur}
    /\ calls' = Append(calls, cur)
    /\ embedFut' = FutPending
    /\ pulling' = TRUE
    /\ UNCHANGED <<gen, chunk, cur, out>>

\* Err(err) => { warn!(..); continue; }
\* the poll goes on: it either parks on the next embed call (Pending) or
\* returns Ready(None)
OnEmbedErr ==
    /\ failed' = failed \cup {cur}
    /\ StartChunk
    /\ pulling' = (gen' = "embedding")
    /\ out' = out

\* variant: the stream ends after its first record
OnEmbedOkBreak(v) ==
    /\ out' = Append(out, Record(v, Slice(content, chunk[1], chunk[2])))
    /\ gen' = "done"
    /\ embedFut' = FutNone
    /\ pulling' = FALSE
    /\ UNCHANGED <<chunk, cur, calls, failed>>

\* variant: the newest record is handed over ahead of the earlier ones
OnEmbedOkFront(v) ==
    /\ out' = <<Record(v, Slice(content, chunk[1], chunk[2]))>> \o out
    /\ gen' = "yielded"
    /\ embedFut' = FutNone
    /\ pulling' = FALSE
    /\ UNCHANGED <<chunk, cur, calls, failed>>

\* variant: the generator does not wait at the yield, it goes on to embed
\* the next chunk while the consumer still holds the record
OnEmbedOkEager(v) ==
    /\ out' = Append(out, Record(v, Slice(content, chunk[1], chunk[2])))
    /\ StartChunk
    /\ pulling' = FALSE
    /\ failed' = failed

\* variant: the record carries the whole body instead of the chunk
OnEmbedOkWholeBody(v) ==
    /\ out' = Append(out, Record(v, content))
    /\ gen' = "yielded"
    /\ embedFut' = FutNone
    /\ pulling' = FALSE
    /\ UNCHANGED <<chunk, cur, calls, failed>>

\* variant: the vector of the first embedded chunk is kept for the later ones
OnEmbedOkStale(v) ==
    LET IsOk(r) == r.res.st = "ok"
        ok == SelectSeq(returned, IsOk)
        w == IF ok = <<>> THEN v ELSE ok[1].res.val
    IN  /\ out' = Append(out, Record(w, Slice(content, chunk[1], chunk[2])))
        /\ gen' = "yielded"
        /\ embedFut' = FutNone
        /\ pulling' = FALSE
        /\ UNCHANGED <<chunk, cur, calls, failed>>

\* Ok(embedding) => binarize, build the chunk json, yield: the poll returns
\* Ready(Some(record)) and the generator is suspended at the yield
OnEmbedOk(v) ==
    /\ out' = Append(out, Record(v, Slice(content, chunk[1], chunk[2])))
    /\ gen' = "yielded"
    /\ embedFut' = FutNone
    /\ pulling' = FALSE
    /\ UNCHANGED <<chunk, cur, calls, failed>>

\* ---------------------------------------------------- attribute builders
\* variant: the tag is dropped when the id already carries it
format_id_Idempotent(id) ==
    IF Len(id) >= 4 /\ SubSeq(id, 1, 4) = <<"w", "e", "b", ":">>
    THEN id
    ELSE <<"w", "e", "b", ":">> \o id

\* format!("web:{id}")
format_id(id) == <<"w", "e", "b", ":">> \o id

\* self.format_id(&document.id)
build_id(d) == format_id(d.id)

\* variant: an empty title is replaced by the link
build_attributes_Defaulted(d) ==
    [title |-> IF d.title = <<>> THEN d.link ELSE d.title, link |-> d.link]

\* json!({ TITLE: document.title, LINK: document.link })
build_attributes(d) == [title |-> d.title, link |-> d.link]

\* -------------------------------------------------------------- actions
\* build_chunk_attributes(document): clones the Arc, returns the boxed future
Call ==
    /\ phase = "new"
    /\ phase' = "future"
    /\ UNCHANGED <<document, content, gen, chunk, cur, embedFut, calls,
                   failed, out, pulling, pulls, dropped, returned, result, peer>>

\* variant: awaiting the future already embeds the first chunk
AwaitEager ==
    /\ phase = "future"
    /\ ~dropped
    /\ phase' = "stream"
    /\ content' = document.body
    /\ IF ChunksOf[document.body] # <<>>
       THEN /\ chunk' = ChunksOf[document.body][1]
            /\ cur' = 1
            /\ calls' = Append(calls, 1)
            /\ embedFut' = FutPending
            /\ gen' = "embedding"
       ELSE UNCHANGED <<gen, chunk, cur, embedFut, calls>>
    /\ UNCHANGED <<document, failed, out, pulling, pulls, dropped, returned,
                   result, peer>>

\* awaiting the future: builds the splitter, clones the body, boxes the stream
Await ==
    /\ phase = "future"
    /\ ~dropped
    /\ phase' = "stream"
    /\ content' = document.body
    /\ UNCHANGED <<document, gen, chunk, cur, embedFut, calls, failed,
                   out, pulling, pulls, dropped, returned, result, peer>>

\* variant: a poll of a finished stream starts the loop over the chunks again
PullRestart ==
    /\ phase = "stream"
    /\ ~dropped
    /\ ~pulling
    /\ gen = "done" => pulls < Len(out) + 1 + MaxDonePulls
    /\ pulls' = pulls + 1
    /\ \/ /\ gen \in {"start", "yielded"}
          /\ StartChunk
       \/ /\ gen = "done"
          /\ IF ChunksOf[content] # <<>>
             THEN /\ chunk' = ChunksOf[content][1]
                  /\ cur' = 1
                  /\ calls' = Append(calls, 1)
                  /\ embedFut' = FutPending
                  /\ gen' = "embedding"
             ELSE UNCHANGED <<gen, chunk, cur, embedFut, calls>>
    /\ pulling' = (gen' = "embedding")
    /\ UNCHANGED <<document, phase, content, failed, out, dropped, returned,
                   result, peer>>

\* the consumer calls stream.next().await, which polls the generator: the
\* first poll enters the for loop, a poll after a yield takes the next turn
\* of the loop, a poll of a finished stream returns None
Pull ==
    /\ phase = "stream"
    /\ ~dropped
    /\ ~pulling
    /\ gen = "done" => pulls < Len(out) + 1 + MaxDonePulls
    /\ pulls' = pulls + 1
    /\ \/ /\ gen \in {"start", "yielded"}
          /\ StartChunk
       \/ /\ gen = "done"
          /\ UNCHANGED <<gen, chunk, cur, embedFut, calls>>
    /\ pulling' = (gen' = "embedding")
    /\ UNCHANGED <<document, phase, content, failed, out, dropped, returned,
                   result, peer>>

\* the embedder finishes the call in flight
EmbedComplete ==
    /\ embedFut = FutPending
    /\ \E r \in {FutOk(v) : v \in Vectors} \cup {FutErr} : embedFut' = r
    /\ UNCHANGED <<document, phase, content, gen, chunk, cur, calls,
                   failed, out, pulling, pulls, dropped, returned, result, peer>>

\* the woken consumer task polls the stream again: the generator resumes
\* after `.await` with the embed result
Resume ==
    /\ pulling
    /\ embedFut.st \in {"ok", "err"}
    /\ IF embedFut.st = "err" THEN OnEmbedErr ELSE OnEmbedOk(embedFut.val)
    /\ returned' = Append(returned, [n |-> calls[Len(calls)], res |-> embedFut])
    /\ UNCHANGED <<document, phase, content, pulls, dropped, result, peer>>

\* variant: the generator runs detached, dropping the stream stops nothing
DropStreamDetached ==
    /\ dropped' = TRUE
    /\ UNCHANGED <<embedFut, pulling>>

\* dropping the future or the stream drops the generator and with it the
\* embed future it was awaiting
DropStream ==
    /\ dropped' = TRUE
    /\ embedFut' = FutNone
    /\ pulling' = FALSE

Drop ==
    /\ phase \in {"future", "stream"}
    /\ ~dropped
    /\ DropStream
    /\ UNCHANGED <<document, phase, content, gen, chunk, cur, calls,
                   failed, out, pulls, returned, result, peer>>

\* variant: building the document attributes embeds the title
BuildAttributesEmbedding ==
    /\ embedFut = FutNone
    /\ result' = [op |-> "build_attributes", arg |-> <<>>, val |-> build_attributes(document)]
    /\ calls' = Append(calls, 0)
    /\ embedFut' = FutPending
    /\ UNCHANGED <<document, phase, content, gen, chunk, cur, failed, out,
                   pulling, pulls, dropped, returned, peer>>

\* a call of format_id(id) with any id
FormatId ==
    /\ \E id \in Ids : result' = [op |-> "format_id", arg |-> id, val |-> format_id(id)]
    /\ UNCHANGED <<document, phase, content, gen, chunk, cur, embedFut, calls,
                   failed, out, pulling, pulls, dropped, returned, peer>>

\* a call of build_id(&document), awaited
BuildId ==
    /\ result' = [op |-> "build_id", arg |-> document.id, val |-> build_id(document)]
    /\ UNCHANGED <<document, phase, content, gen, chunk, cur, embedFut, calls,
                   failed, out, pulling, pulls, dropped, returned, peer>>

\* a call of build_attributes(&document), awaited
BuildAttributes ==
    /\ result' = [op |-> "build_attributes", arg |-> <<>>, val |-> build_attributes(document)]
    /\ UNCHANGED <<document, phase, content, gen, chunk, cur, embedFut, calls,
                   failed, out, pulling, pulls, dropped, returned, peer>>

\* the pipeline being polled, as a record
Running ==
    Pipeline(document, phase, content, gen, chunk, cur, embedFut, calls,
             failed, out, pulling, pulls, dropped, returned)

\* variant: the pipelines share one chunk cursor
SwitchSharedCursor ==
    /\ peer # <<>>
    /\ peer' = <<Running>>
    /\ document' = peer[1].document
    /\ phase' = peer[1].phase
    /\ content' = peer[1].content
    /\ gen' = peer[1].gen
    /\ chunk' = peer[1].chunk
    /\ cur' = cur
    /\ embedFut' = peer[1].embedFut
    /\ calls' = peer[1].calls
    /\ failed' = peer[1].failed
    /\ out' = peer[1].out
    /\ pulling' = peer[1].pulling
    /\ pulls' = peer[1].pulls
    /\ dropped' = peer[1].dropped
    /\ returned' = peer[1].returned
    /\ UNCHANGED result

\* the executor turns to the pipeline of the other document: each pipeline
\* owns its Arc clone of the embedder, its splitter and its copy of the body
\* (lines 61-64), so all of its state goes with it
Switch ==
    /\ peer # <<>>
    /\ peer' = <<Running>>
    /\ document' = peer[1].document
    /\ phase' = peer[1].phase
    /\ content' = peer[1].content
    /\ gen' = peer[1].gen
    /\ chunk' = peer[1].chunk
    /\ cur' = peer[1].cur
    /\ embedFut' = peer[1].embedFut
    /\ calls' = peer[1].calls
    /\ failed' = peer[1].failed
    /\ out' = peer[1].out
    /\ pulling' = peer[1].pulling
    /\ pulls' = peer[1].pulls
    /\ dropped' = peer[1].dropped
    /\ returned' = peer[1].returned
    /\ UNCHANGED result

Next == Call \/ Await \/ Pull \/ EmbedComplete \/ Resume \/ Drop

\* the chunk pipeline together with the attribute builders
DocNext == Next \/ FormatId \/ BuildId \/ BuildAttributes

Spec == Init /\ [][Next]_vars

DocSpec == DocInit /\ [][DocNext]_vars

\* two pipelines over one embedder, polled in any order
PairNext == Next \/ Switch

PairSpec == PairInit /\ [][PairNext]_vars

\* the consumer task and the embedder keep running; nothing forces a drop
FairSpec ==
    /\ Init /\ [][Next]_vars
    /\ WF_vars(Call) /\ WF_vars(Await) /\ WF_vars(Pull)
    /\ WF_vars(EmbedComplete) /\ WF_vars(Resume)

\* ============================================================ properties
StreamEnded == gen = "done"

\* chunk i has been embedded and the result handed back to the generator
Settled(i) == (\E k \in 1..Len(calls) : calls[k] = i) /\ ~(gen = "embedding" /\ cur = i)

\* the chunk_text values of the emitted records, in emission order
EmittedTexts == [k \in 1..Len(out) |-> out[k].attributes.chunk_text]

\* C1: the number of records emitted never exceeds the number of chunks the
\* splitter produces for the body, and once the stream is exhausted with no
\* failed embed call the two numbers are equal.
C1_RecordCount ==
    LET n == Len(ChunksOf[document.body])
    IN  /\ Len(out) <= n
        /\ (StreamEnded /\ failed = {}) => Len(out) = n

C1_Witness ==
    StreamEnded /\ failed = {} /\ Len(out) >= 3 /\ Len(out) = Len(ChunksOf[document.body])

\* C2: records are emitted in chunk order: the emitted chunk_text sequence is
\* the splitter's chunk sequence restricted to the chunks whose embed
\* succeeded, hence the whole sequence when no embed failed.
C2_ChunkOrder ==
    LET texts == TextsOf[document.body]
        Emits(i) == Settled(i) /\ i \notin failed
        ok == SelectSeq([i \in 1..Len(texts) |-> i], Emits)
    IN  /\ EmittedTexts = [k \in 1..Len(ok) |-> texts[ok[k]]]
        /\ (StreamEnded /\ failed = {}) => EmittedTexts = texts

C2_Witness ==
    /\ StreamEnded /\ failed = {2} /\ Len(out) = 2 /\ cur = 3
    /\ out[1].attributes.chunk_text # out[2].attributes.chunk_text

\* C3: an embedding failure suppresses only the failed chunk's record: the
\* records emitted are exactly one per chunk whose embed succeeded, every
\* chunk is attempted before the stream ends, and the stream ends in its
\* normal terminal state (1 failure of 3 chunks: 2 records; all failed: 0).
C3_FailureSkipsOneChunk ==
    LET n == Len(ChunksOf[document.body])
    IN  /\ Len(out) = Cardinality({i \in 1..n : Settled(i) /\ i \notin failed})
        /\ \A i \in failed : Settled(i)
        /\ StreamEnded =>
              /\ calls = [i \in 1..n |-> i]
              /\ Len(out) = n - Cardinality(failed)
              /\ embedFut = FutNone
        /\ (StreamEnded /\ n = 3 /\ Cardinality(failed) = 1) => Len(out) = 2
        /\ (StreamEnded /\ failed = 1..n) => out = <<>>

C3_Witness ==
    StreamEnded /\ cur = 3 /\ failed = {1} /\ Len(out) = 2 /\ calls = <<1, 2, 3>>

\* C4: as long as the consumer keeps pulling and every embed call returns,
\* the stream reaches end-of-stream, every chunk having been attempted exactly
\* once, however many embed calls failed.
C4_StreamTerminates ==
    <>(dropped \/ (StreamEnded /\ calls = [i \in 1..Len(ChunksOf[document.body]) |-> i]))

C4_Witness ==
    StreamEnded /\ ~dropped /\ Cardinality(failed) >= 2 /\ Len(out) >= 1 /\ pulls >= 2

\* C5: once the consumer has dropped the stream no further embed call is
\* issued and no further record is emitted, and an embed call in flight at
\* that moment is abandoned with the stream.
C5_Cancellation ==
    [][dropped' => (calls' = calls /\ out' = out /\ embedFut' = FutNone)]_vars

C5_Witness ==
    /\ dropped /\ gen = "embedding" /\ Len(out) >= 1
    /\ cur < Len(ChunksOf[document.body])

\* C6: embed is invoked at most once per chunk and never again after a
\* failure; the number of embed calls never exceeds the number of chunks.
C6_EmbedAtMostOnce ==
    LET n == Len(ChunksOf[document.body])
        Count(i) == Cardinality({k \in 1..Len(calls) : calls[k] = i})
    IN  /\ Len(calls) <= n
        /\ \A k \in 1..Len(calls) : calls[k] \in 1..n
        /\ \A i \in 1..n : Count(i) <= 1
        /\ \A i \in failed : Count(i) = 1

C6_Witness ==
    StreamEnded /\ failed = {1, 2} /\ calls = <<1, 2, 3>>

\* C7: at most one chunk is in the pipeline at a time (embedded or about to
\* be, its record not yet with the consumer), and an embed call is in flight
\* only while the consumer is waiting in a pull made after it received the
\* previous record.
C7_Backpressure ==
    /\ Len(calls) - Cardinality(failed) - Len(out) \in {0, 1}
    /\ embedFut # FutNone => (pulling /\ pulls > Len(out))
    /\ gen = "yielded" => (embedFut = FutNone /\ Len(calls) = Cardinality(failed) + Len(out))

C7_Witness ==
    /\ gen = "yielded" /\ ~pulling /\ ~dropped /\ Len(out) = 2
    /\ cur < Len(ChunksOf[document.body])

\* C8: an empty or whitespace-only body has no chunks, so no embed call is
\* made, no record is emitted and the first pull ends the stream normally.
C8_BlankBody ==
    IsBlank(document.body) =>
        /\ ChunksOf[document.body] = <<>>
        /\ calls = <<>> /\ out = <<>> /\ failed = {}
        /\ embedFut = FutNone
        /\ pulls >= 1 => (StreamEnded /\ ~pulling)

C8_Witness ==
    /\ document.body # <<>> /\ IsBlank(document.body)
    /\ StreamEnded /\ pulls >= 1 /\ ~dropped

\* C9 as stated: the chunks are contiguous non-empty segments of at most 2048
\* characters that together cover the entire body, and a 5000-character body
\* has at least 3 chunks.
C9_Original ==
    LET b == document.body
        c == ChunksOf[b]
        n == Len(c)
    IN  /\ \A i \in 1..n : c[i][1] < c[i][2] /\ c[i][2] - c[i][1] <= 2048
        /\ \A i \in 1..(n - 1) : c[i + 1][1] = c[i][2]
        /\ n = 0 => Size(b) = 0
        /\ n > 0 => (c[1][1] = 0 /\ c[n][2] = Size(b))
        /\ Size(b) = 5000 => n >= 3

\* C9 (amended): the chunks are ordered, non-overlapping, non-empty, trimmed
\* segments of the body of at most 2048 characters each that together cover
\* every non-whitespace character of the body (only whitespace lies between
\* and around them); a 5000-character body without whitespace has at least 3
\* chunks.
C9_ChunksCoverText ==
    LET b == document.body
        c == ChunksOf[b]
        t == TextsOf[b]
        n == Len(c)
        Sum[i \in 0..n] == IF i = 0 THEN 0 ELSE TextChars(t[i]) + Sum[i - 1]
    IN  /\ \A i \in 1..n :
              /\ 0 <= c[i][1] /\ c[i][1] < c[i][2] /\ c[i][2] <= Size(b)
              /\ c[i][2] - c[i][1] <= 2048
              /\ Size(t[i]) = c[i][2] - c[i][1]
              /\ Trim(t[i]) = t[i]
        /\ \A i \in 1..(n - 1) : c[i][2] <= c[i + 1][1]
        /\ Sum[n] = TextChars(b)
        /\ (Size(b) = 5000 /\ TextChars(b) = 5000) => n >= 3

C9_Witness ==
    /\ Size(document.body) = 5000 /\ TextChars(document.body) = 5000
    /\ StreamEnded /\ Len(out) = 3
    /\ Size(out[1].attributes.chunk_text) = 2048

\* C10 as stated: every non-empty body shorter than 2048 characters has
\* exactly one chunk, the trimmed body, and with a succeeding embedder exactly
\* one record is emitted, whose chunk_text is the trimmed body.
C10_Original ==
    LET b == document.body
    IN  (b # <<>> /\ Size(b) < 2048) =>
            /\ Len(ChunksOf[b]) = 1
            /\ TextsOf[b][1] = Trim(b)
            /\ (StreamEnded /\ failed = {}) =>
                   (Len(out) = 1 /\ out[1].attributes.chunk_text = Trim(b))

\* C10 (amended): every body shorter than 2048 characters that is not empty
\* after trimming has exactly one chunk, the trimmed body, and with a
\* succeeding embedder exactly one record is emitted, whose chunk_text is the
\* trimmed body.
C10_ShortBodyOneChunk ==
    LET b == document.body
    IN  (Trim(b) # <<>> /\ Size(b) < 2048) =>
            /\ Len(ChunksOf[b]) = 1
            /\ TextsOf[b][1] = Trim(b)
            /\ (StreamEnded /\ failed = {}) =>
                   (Len(out) = 1 /\ out[1].attributes.chunk_text = Trim(b))

C10_Witness ==
    /\ Size(document.body) < 2048 /\ Len(document.body) = 3
    /\ Trim(document.body) # document.body
    /\ StreamEnded /\ failed = {} /\ Len(out) = 1
    /\ out[1].attributes.chunk_text = Trim(document.body)

\* the successful embed results in the order the generator received them
OkReturned ==
    LET IsOk(r) == r.res.st = "ok"
    IN  SelectSeq(returned, IsOk)

\* the token sequence of every embedding vector, independent of the state
TokensOf == [v \in Vectors |-> binarize_embedding(v)] @@ <<>>

\* C11: the tokens of a record threshold the components of its embedding
\* vector against zero, in component order: a component >= 0 gives a token of
\* one class, a component < 0 a token of the other, so a zero vector of
\* length n > 0 gives n tokens, all of the ">= 0" class.
C11_ThresholdOnZero ==
    /\ Len(out) = Len(OkReturned)
    /\ \A k \in 1..Len(out) :
          LET v == OkReturned[k].res.val
              t == out[k].tokens
          IN  /\ Len(t) = Len(v)
              /\ \A i \in 1..Len(v) :
                    /\ t[i][2] = i - 1
                    /\ v[i] >= 0 => t[i][1] = "ge0"
                    /\ v[i] < 0 => t[i][1] = "lt0"
              /\ (Len(v) > 0 /\ \A i \in 1..Len(v) : v[i] = 0) =>
                    (t # <<>> /\ \A i \in 1..Len(t) : t[i][1] = "ge0")

C11_Witness ==
    /\ Len(out) = 2
    /\ OkReturned[1].res.val = <<0, 0>> /\ out[1].tokens = <<<<"ge0", 0>>, <<"ge0", 1>>>>
    /\ OkReturned[2].res.val = <<1, -1>> /\ out[2].tokens = <<<<"ge0", 0>>, <<"lt0", 1>>>>

Tag == <<"w", "e", "b", ":">>

\* C13: format_id(s) is the tag "web:" followed by s, so format_id("abc") is
\* "web:abc"; build_id(document) is that of document.id; and no other id is
\* formatted to the same identifier.
C13_FormatId ==
    /\ result.op \in {"format_id", "build_id"} =>
          /\ Len(result.val) = Len(Tag) + Len(result.arg)
          /\ SubSeq(result.val, 1, Len(Tag)) = Tag
          /\ SubSeq(result.val, Len(Tag) + 1, Len(result.val)) = result.arg
          /\ result.arg = <<"a", "b", "c">> =>
                result.val = <<"w", "e", "b", ":", "a", "b", "c">>
          /\ \A s \in Ids : s # result.arg => format_id(s) # result.val
    /\ result.op = "build_id" => result.arg = document.id

C13_Witness ==
    /\ result.op = "build_id"
    /\ document.id = <<"w", "e", "b", ":", "a", "b", "c">>
    /\ result.val = <<"w", "e", "b", ":", "w", "e", "b", ":", "a", "b", "c">>

\* ------------------------------------------------------------------ C14
\* C14: the attributes build_attributes returns carry the document's title
\* and link unchanged, an empty title or link included.
C14_AttributesPassThrough ==
    result.op = "build_attributes" =>
        /\ result.val.title = document.title
        /\ result.val.link = document.link
        /\ document.title = <<>> => result.val.title = <<>>
        /\ document.link = <<>> => result.val.link = <<>>

C14_Witness ==
    /\ result.op = "build_attributes"
    /\ document.title = <<>>
    /\ document.link = <<"L">>
    /\ result.val = [title |-> <<>>, link |-> <<"L">>]

\* ------------------------------------------------------------------ C15
\* C15: the chunks of a document are processed one after the other: at most
\* one embed call is in flight, and when the call for chunk N+1 has been
\* issued the call for chunk N has returned and chunk N has been emitted or
\* dropped as failed.
C15_Sequential ==
    /\ Len(calls) - Len(returned) \in {0, 1}
    /\ embedFut.st # "none" => Len(calls) = Len(returned) + 1
    /\ \A n \in 1..Len(calls) - 1 :
          /\ returned[n].n = calls[n]
          /\ calls[n + 1] = calls[n] + 1
          /\ \/ returned[n].res.st = "err" /\ calls[n] \in failed
             \/ /\ returned[n].res.st = "ok"
                /\ \E k \in 1..Len(out) :
                      out[k].attributes.chunk_text = TextsOf[document.body][calls[n]]
    /\ Len(out) + Cardinality(failed) >= Len(calls) - 1

C15_Witness ==
    /\ embedFut = FutPending
    /\ calls = <<1, 2, 3>>
    /\ Len(returned) = 2
    /\ Len(out) = 1
    /\ failed = {2}

\* ------------------------------------------------------------------ C16
\* what a pipeline run alone emits for its body b and the embed results rets
SoloOut(b, rets) ==
    LET IsOk(r) == r.res.st = "ok"
        ok == SelectSeq(rets, IsOk)
    IN  [k \in 1..Len(ok) |-> Record(ok[k].res.val, TextsOf[b][ok[k].n])]

\* the pipeline p has, so far, done what it does alone
Isolated(p) ==
    /\ p.calls = [i \in 1..Len(p.calls) |-> i]
    /\ Len(p.calls) <= Len(ChunksOf[p.document.body])
    /\ p.gen = "done" => Len(p.calls) = Len(ChunksOf[p.document.body])
    /\ p.phase = "stream" => p.content = p.document.body
    /\ Len(p.returned) <= Len(p.calls)
    /\ \A n \in 1..Len(p.returned) : p.returned[n].n = n
    /\ p.failed = {n \in 1..Len(p.returned) : p.returned[n].res.st = "err"}
    /\ p.out = SoloOut(p.document.body, p.returned)

\* C16: two pipelines of different documents over the same embedder, their
\* steps interleaved in any order: each one emits the records it emits alone
\* for the embed results it received.
C16_NoInterference ==
    /\ Isolated(Running)
    /\ \A i \in 1..Len(peer) : Isolated(peer[i]) /\ peer[i].document # document

C16_Witness ==
    /\ Len(peer) = 1
    /\ gen = "done" /\ peer[1].gen = "done"
    /\ Len(out) = 2 /\ Len(peer[1].out) = 2
    /\ Cardinality(failed) + Cardinality(peer[1].failed) = 1
    /\ pulls > 0 /\ peer[1].pulls > 0

\* ------------------------------------------------------------------ C17
\* C17: a call of format_id, build_id or build_attributes issues no embed
\* call and touches nothing of the chunk pipeline, whatever the pipeline is
\* doing, and what it returns is made of the fields of the document (of its
\* argument for format_id) alone.
C17_BuildersDoNotEmbed ==
    [][result' # result =>
         /\ calls' = calls
         /\ embedFut' = embedFut
         /\ returned' = returned
         /\ <<gen, chunk, cur, failed, out, pulling, pulls>>' =
               <<gen, chunk, cur, failed, out, pulling, pulls>>
         /\ document' = document
         /\ result'.op = "build_id" => result'.val = Tag \o document.id
         /\ result'.op = "format_id" => result'.val = Tag \o result'.arg
         /\ result'.op = "build_attributes" =>
               result'.val = [title |-> document.title, link |-> document.link]
      ]_vars

C17_Witness ==
    /\ result.op = "build_attributes"
    /\ embedFut = FutPending
    /\ calls = <<1>>
    /\ pulls = 1
    /\ out = <<>>

\* ------------------------------------------------------------------ C18
\* C18: once the stream has returned end-of-stream it stays ended: a further
\* pull returns no record, issues no embed call and does not start the
\* chunking again.
C18_DoneAbsorbing ==
    [][StreamEnded =>
         /\ StreamEnded'
         /\ out' = out
         /\ calls' = calls
         /\ <<chunk, cur, failed, returned>>' = <<chunk, cur, failed, returned>>
         /\ embedFut' = FutNone
         /\ ~pulling'
      ]_vars

C18_Witness ==
    /\ StreamEnded
    /\ ~dropped
    /\ Len(out) >= 1
    /\ pulls > Len(out) + 1

\* ------------------------------------------------------------------ C19
\* C19: production is lazy: calling build_chunk_attributes and awaiting the
\* future issues no embed call, the first chunk is embedded at the consumer's
\* first pull, and the embed calls issued never exceed the pulls made plus
\* the embed calls that failed.
C19_Lazy ==
    /\ phase \in {"new", "future"} => calls = <<>> /\ embedFut = FutNone
    /\ pulls = 0 => calls = <<>> /\ embedFut = FutNone /\ gen = "start"
    /\ (pulls >= 1 /\ ChunksOf[document.body] # <<>>) => calls # <<>>
    /\ Len(calls) <= pulls + Cardinality(failed)

C19_Witness ==
    /\ pulls = 2
    /\ Len(calls) = 3
    /\ Cardinality(failed) = 1
    /\ embedFut = FutPending

\* ------------------------------------------------------------------ C20
\* C20: every emitted record pairs the tokens and the text of one chunk: its
\* tokens binarize the vector that the embed call for the chunk in its
\* chunk_text attribute returned, and its attribute object has the chunk_text
\* field and no other.
C20_TokensMatchText ==
    /\ Len(out) = Len(OkReturned)
    /\ \A k \in 1..Len(out) :
          LET r == OkReturned[k]
          IN  /\ DOMAIN out[k] = {"tokens", "attributes"}
              /\ DOMAIN out[k].attributes = {"chunk_text"}
              /\ r.n \in 1..Len(TextsOf[document.body])
              /\ out[k].attributes.chunk_text = TextsOf[document.body][r.n]
              /\ out[k].tokens = binarize_embedding(r.res.val)
              /\ \A j \in 1..Len(OkReturned) : j # k => OkReturned[j].n # r.n

C20_Witness ==
    /\ failed = {1}
    /\ Len(out) = 2
    /\ out[1].tokens # out[2].tokens
    /\ out[1].attributes.chunk_text = TextsOf[document.body][2]
    /\ out[2].attributes.chunk_text = TextsOf[document.body][3]

====
